---- MODULE Spec2Model ----
(***************************************************************************)
(* A model of the image comparison engine of image_comparison_tool.py      *)
(* (class ImageComparisonTool) and of the command line front end of        *)
(* cli_tool.py.                                                            *)
(*                                                                         *)
(* One ImageComparisonTool instance is the state.  Every public method is  *)
(* one action; the arguments and the outcome (return value or exception)   *)
(* of the most recent call are kept in `call` and `outcome`.               *)
(*                                                                         *)
(* Numbers.  Pixel channels and coordinates are integers.  A Euclidean     *)
(* distance sqrt(n) is represented by its radicand n (an exact integer);   *)
(* SqrtGt compares such a distance with a threshold.  Thresholds are       *)
(* whole numbers.  Pass rates are percentages in thousandths (75.0 is      *)
(* 75000, 74.999 is 74999).                                                *)
(***************************************************************************)
EXTENDS Integers, Sequences, FiniteSets, TLC

VARIABLES
    ref_file,               \* what the file at reference_image_path holds
    test_file,              \* what the file at test_image_path holds
    reference_image,        \* self.reference_image
    test_image,             \* self.test_image
    test_points,            \* self.test_points
    comparison_results,     \* self.comparison_results
    significance_threshold, \* self.significance_threshold
    threshold_at_comparison,\* history: the threshold read by the compare_pixels
                            \* call that stored comparison_results
    call,                   \* the most recent call and its arguments
    outcome,                \* its outcome: exception raised, value returned
    steps,                  \* the engine methods that call invoked, in order
    clock,                  \* datetime.now(), in whole seconds
    reports,                \* the files under the directory reports/
    threads                 \* two concurrent runs of run_full_analysis, each
                            \* on an instance of its own

vars == <<ref_file, test_file, reference_image, test_image, test_points,
          comparison_results, significance_threshold, threshold_at_comparison,
          call, outcome, steps,
         clock, reports, threads>>

(***************************************************************************)
(* Bounds of the model.                                                    *)
(***************************************************************************)
MaxCount == 2            \* requested point counts are 0..MaxCount in Spec
MaxSamplerCount == 9     \* and 0..MaxSamplerCount in SpecSampler
MaxSeed == 2             \* the random generators considered are 0..MaxSeed
MaxClock == 2            \* the clock shows the seconds 0..MaxClock

(***************************************************************************)
(* Program constants.                                                      *)
(***************************************************************************)
DEFAULT_SIGNIFICANCE_THRESHOLD == 30
EXCELLENT_THRESHOLD == 95000
GOOD_THRESHOLD == 87500
ACCEPTABLE_THRESHOLD == 75000
STRATEGIC_MARGIN == 50
RANDOM_MARGIN == 10

GRADE_EXCELLENT == "EXCELLENT"
GRADE_GOOD == "GOOD"
GRADE_ACCEPTABLE == "ACCEPTABLE"
GRADE_FAIL == "FAIL"

(***************************************************************************)
(* Files and decoded images.                                               *)
(*                                                                         *)
(* A file is "missing" (no such path), "corrupt" (exists, cv2.imread       *)
(* returns None) or an image file.  An image file has a width, a height    *)
(* and an RGB colour at every pixel.                                       *)
(***************************************************************************)
ImageFiles == {"refB", "testB", "tiny", "photo", "icon"}

FileWidth(f) ==
    CASE f \in {"refB", "testB"} -> 52
      [] f = "tiny" -> 12
      [] f = "photo" -> 800
      [] f = "icon" -> 3
      [] OTHER -> 0

FileHeight(f) ==
    CASE f \in {"refB", "testB"} -> 51
      [] f = "tiny" -> 12
      [] f = "photo" -> 600
      [] f = "icon" -> 3
      [] OTHER -> 0

\* The RGB colour the file holds at (x, y), 0 <= x < width, 0 <= y < height.
\* Reference files are a flat colour; test files carry defects: one exactly
\* 30 away from the reference, one a little more than 30 away (sqrt(921)),
\* one far away with a channel at 255, one with negative channel differences.
FilePixel(f, x, y) ==
    IF f \in {"refB", "tiny", "photo", "icon"} THEN <<100, 150, 200>>
    ELSE CASE (x + y) % 5 = 0 -> <<100, 150, 200>>
           [] (x + y) % 5 = 1 -> <<130, 150, 200>>
           [] (x + y) % 5 = 2 -> <<80, 130, 189>>
           [] (x + y) % 5 = 3 -> <<255, 0, 200>>
           [] OTHER           -> <<100, 150, 210>>

\* self.reference_image / self.test_image is None
NoneImage == [file |-> "none", w |-> 0, h |-> 0, bgr |-> FALSE]

\* cv2.imread(path, cv2.IMREAD_COLOR): None for a missing or undecodable
\* file, otherwise the array in BGR channel order.
imread(f) ==
    IF f \in ImageFiles
    THEN [file |-> f, w |-> FileWidth(f), h |-> FileHeight(f), bgr |-> TRUE]
    ELSE NoneImage

\* cv2.cvtColor(img, cv2.COLOR_BGR2RGB): swaps the first and third channel.
cvtColor(img) == [img EXCEPT !.bgr = ~img.bgr]

\* numpy indexing img[y, x]: an index i of an axis of length n is valid when
\* -n <= i < n, a negative index counting from the end.
IndexOk(img, x, y) ==
    /\ img # NoneImage
    /\ -img.w <= x /\ x < img.w
    /\ -img.h <= y /\ y < img.h

PixelAt(img, x, y) ==
    LET xx == IF x < 0 THEN x + img.w ELSE x
        yy == IF y < 0 THEN y + img.h ELSE y
        p  == FilePixel(img.file, xx, yy)
    IN  IF img.bgr THEN <<p[3], p[2], p[1]>> ELSE p

(***************************************************************************)
(* Small numeric helpers.                                                  *)
(***************************************************************************)
\* int(np.sqrt(n)) for n >= 0
ISqrt(n) == CHOOSE k \in 0..n : k * k <= n /\ (k + 1) * (k + 1) > n

\* int(np.ceil(a / b)) for a >= 0, b > 0
CeilDiv(a, b) == (a + b - 1) \div b

\* sqrt(n) > t, for a radicand n >= 0 and a threshold t
SqrtGt(n, t) == t < 0 \/ n > t * t

Min(a, b) == IF a <= b THEN a ELSE b

\* a slice that does not truncate
Take_all(s, n) == s

\* candidate_points[:n] for n >= 0
Take(s, n) == SubSeq(s, 1, Min(n, Len(s)))

RECURSIVE SeqFilter(_, _)
\* the elements of s that are in the set keep, in order
SeqFilter(s, keep) ==
    IF s = << >> THEN << >>
    ELSE IF Head(s) \in keep THEN <<Head(s)>> \o SeqFilter(Tail(s), keep)
         ELSE SeqFilter(Tail(s), keep)

(***************************************************************************)
(* The instance as a record, so that a method can be applied to it and     *)
(* methods can call each other.  A method yields [self, exc, ret]: the     *)
(* instance afterwards, the exception that left it ("none" when it         *)
(* returned) and the value returned (as a sequence; << >> for None).       *)
(***************************************************************************)
Self ==
    [reference_image |-> reference_image,
     test_image |-> test_image,
     test_points |-> test_points,
     comparison_results |-> comparison_results,
     significance_threshold |-> significance_threshold,
     threshold_at_comparison |-> threshold_at_comparison]

\* ImageComparisonTool.__init__
Constructed ==
    [reference_image |-> NoneImage,
     test_image |-> NoneImage,
     test_points |-> << >>,
     comparison_results |-> << >>,
     significance_threshold |-> DEFAULT_SIGNIFICANCE_THRESHOLD,
     threshold_at_comparison |-> DEFAULT_SIGNIFICANCE_THRESHOLD]

Returned(self, ret) == [self |-> self, exc |-> "none", ret |-> ret]

Raised(self, exc) == [self |-> self, exc |-> exc, ret |-> << >>]

(***************************************************************************)
(* set_significance_threshold                                              *)
(***************************************************************************)
\* a check that lets a threshold of 0 through
ThresholdRejected_negative_only(threshold) == threshold < 0

ThresholdRejected(threshold) == threshold <= 0

\* a setter that classifies the stored results again
set_significance_threshold_reclassify(self, threshold) ==
    IF threshold <= 0
    THEN Raised(self, "ValueError")
    ELSE Returned([self EXCEPT
                     !.significance_threshold = threshold,
                     !.comparison_results =
                        [k \in 1..Len(self.comparison_results) |->
                           [self.comparison_results[k] EXCEPT
                              !.is_significant =
                                 self.comparison_results[k].total_difference
                                    > threshold * threshold]]],
                  << >>)

set_significance_threshold(self, threshold) ==
    IF ThresholdRejected(threshold)
    THEN Raised(self, "ValueError")
    ELSE Returned([self EXCEPT !.significance_threshold = threshold], << >>)

(***************************************************************************)
(* load_images                                                             *)
(***************************************************************************)
load_images(self, rf, tf) ==
    LET ref == imread(rf)
        tst == imread(tf)
    IN  IF ref = NoneImage \/ tst = NoneImage
        THEN Returned([self EXCEPT !.reference_image = ref,
                                   !.test_image = tst], <<FALSE>>)
        ELSE Returned([self EXCEPT !.reference_image = cvtColor(ref),
                                   !.test_image = cvtColor(tst)], <<TRUE>>)

(***************************************************************************)
(* generate_test_points                                                    *)
(***************************************************************************)
\* random.randint(lo, hi) raises ValueError when lo > hi and otherwise
\* returns an integer of lo..hi.  The generator is a seeded pseudo-random
\* one: a seed fixes the sequence of draws.  Draw is the k-th draw
\* (k = 0, 1, ...) of the generator of that seed from lo..hi: generator 0
\* always draws lo, generator 1 always hi, the others move through the
\* range.
RandintRaises(lo, hi) == lo > hi

Draw(seed, k, lo, hi) ==
    CASE seed = 0 -> lo
      [] seed = 1 -> hi
      [] OTHER -> lo + ((seed * (k + 1)) % (hi - lo + 1))

\* for x, y in custom_points: keep (x, y) if 0 <= x < width and 0 <= y < height
\* a bounds test that admits x = width and y = height
InBounds_inclusive(p, width, height) ==
    /\ 0 <= p[1] /\ p[1] <= width
    /\ 0 <= p[2] /\ p[2] <= height

InBounds(p, width, height) ==
    /\ 0 <= p[1] /\ p[1] < width
    /\ 0 <= p[2] /\ p[2] < height

CustomPoints(custom_points, width, height) ==
    SeqFilter(custom_points,
              {custom_points[i] : i \in {k \in 1..Len(custom_points) :
                   InBounds(custom_points[k], width, height)}})

\* a column count that is the square root rounded up to the next integer
GridCols_rounded_up(num_points) == ISqrt(num_points) + 1

\* the grid branch for cols > 0: row by row, stopping at num_points points
GridCols(num_points) == ISqrt(num_points)

\* a row count that is rounded down
GridRows_rounded_down(num_points) == num_points \div GridCols(num_points)

GridRows(num_points) == CeilDiv(num_points, GridCols(num_points))

GridPoint(i, j, rows, cols, width, height) ==
    <<((j + 1) * width) \div (cols + 1), ((i + 1) * height) \div (rows + 1)>>

GridPoints(num_points, width, height) ==
    LET cols == GridCols(num_points)
        rows == GridRows(num_points)
        \* the cells (i, j) in loop order; the k-th cell (1-based) is
        \* row (k-1) div cols, column (k-1) mod cols; cells after the first
        \* num_points are skipped by the len(points) >= num_points test
        emitted == Min(rows * cols, num_points)
    IN  [k \in 1..emitted |->
            GridPoint((k - 1) \div cols, (k - 1) % cols, rows, cols, width, height)]

\* a catalogue that lists the centre before the corners
CandidatePoints_centre_first(width, height) ==
    LET margin == STRATEGIC_MARGIN
    IN  << <<width \div 2, height \div 2>>,
           <<margin, margin>>,
           <<width - margin, margin>>,
           <<margin, height - margin>>,
           <<width - margin, height - margin>>,
           <<width \div 4, height \div 4>>,
           <<(3 * width) \div 4, height \div 4>>,
           <<width \div 2, (3 * height) \div 4>> >>

\* candidate_points of the strategic branch
CandidatePoints(width, height) ==
    LET margin == STRATEGIC_MARGIN
    IN  << <<margin, margin>>,
           <<width - margin, margin>>,
           <<margin, height - margin>>,
           <<width - margin, height - margin>>,
           <<width \div 2, height \div 2>>,
           <<width \div 4, height \div 4>>,
           <<(3 * width) \div 4, height \div 4>>,
           <<width \div 2, (3 * height) \div 4>> >>

\* the random branch for ranges that do not raise: point i (0-based) takes
\* draw 2i for x and draw 2i+1 for y
RandomLow == RANDOM_MARGIN

RandomHigh(size) == size - RANDOM_MARGIN

RandomPoints(seed, num_points, width, height) ==
    [k \in 1..num_points |->
        <<Draw(seed, 2 * (k - 1), RandomLow, RandomHigh(width)),
          Draw(seed, 2 * (k - 1) + 1, RandomLow, RandomHigh(height))>>]

\* generate_test_points(num_points, method, custom_points) with the random
\* generator of the given seed; custom_points = << >> stands for both None
\* and [].
generate_test_points(self, num_points, method, custom_points, seed) ==
    IF self.reference_image = NoneImage
    THEN Returned(self, << >>)
    ELSE
      LET width  == self.reference_image.w
          height == self.reference_image.h
          Done(points) == Returned([self EXCEPT !.test_points = points], points)
      IN  CASE method = "custom" /\ custom_points # << >> ->
                 Done(CustomPoints(custom_points, width, height))
            [] method = "random" ->
                 IF num_points <= 0 THEN Done(<< >>)
                 ELSE IF \/ RandintRaises(RandomLow, RandomHigh(width))
                         \/ RandintRaises(RandomLow, RandomHigh(height))
                      THEN Raised(self, "ValueError")
                      ELSE Done(RandomPoints(seed, num_points, width, height))
            [] method = "grid" ->
                 IF GridCols(num_points) = 0
                 THEN Raised(self, "ZeroDivisionError")
                 ELSE Done(GridPoints(num_points, width, height))
            [] method = "strategic" ->
                 Done(Take(CandidatePoints(width, height), num_points))
            [] OTHER -> Done(<< >>)

(***************************************************************************)
(* compare_pixels                                                          *)
(***************************************************************************)
\* a classifier that also flags a difference equal to the threshold
IsSignificant_inclusive(total_diff, threshold) ==
    threshold <= 0 \/ total_diff >= threshold * threshold

\* total_diff > self.significance_threshold
IsSignificant(total_diff, threshold) == SqrtGt(total_diff, threshold)

\* a difference taken in the unsigned 8-bit type of the pixel buffers
ChannelDiff_uint8(test_c, ref_c) == (test_c - ref_c) % 256

\* int(test_pixel[c]) - int(ref_pixel[c])
ChannelDiff(test_c, ref_c) == test_c - ref_c

\* an identifier that repeats the 0-based index of enumerate
PointId_zero_based(k) == k - 1

\* 'point_id': i + 1, for the 0-based index i of enumerate; k is the 1-based
\* position of the point
PointId(k) == k

\* the result dictionary of one point; total_difference holds the radicand
PointResult(i, x, y, ref_pixel, test_pixel, threshold) ==
    LET r_diff == ChannelDiff(test_pixel[1], ref_pixel[1])
        g_diff == ChannelDiff(test_pixel[2], ref_pixel[2])
        b_diff == ChannelDiff(test_pixel[3], ref_pixel[3])
        total_diff == r_diff * r_diff + g_diff * g_diff + b_diff * b_diff
    IN  [point_id |-> PointId(i),
         coordinates |-> <<x, y>>,
         reference_rgb |-> ref_pixel,
         test_rgb |-> test_pixel,
         rgb_difference |-> <<r_diff, g_diff, b_diff>>,
         total_difference |-> total_diff,
         is_significant |-> IsSignificant(total_diff, threshold)]

\* a comparison that appends its batch to the stored one
compare_pixels_accumulate(self) ==
    IF self.test_points = << >> THEN Returned(self, << >>)
    ELSE IF self.reference_image = NoneImage \/ self.test_image = NoneImage
    THEN Returned(self, << >>)
    ELSE
      LET pts == self.test_points
          readable(k) == /\ IndexOk(self.reference_image, pts[k][1], pts[k][2])
                         /\ IndexOk(self.test_image, pts[k][1], pts[k][2])
          results == [k \in 1..Len(pts) |->
                        PointResult(k, pts[k][1], pts[k][2],
                                    PixelAt(self.reference_image, pts[k][1], pts[k][2]),
                                    PixelAt(self.test_image, pts[k][1], pts[k][2]),
                                    self.significance_threshold)]
      IN  IF \E k \in 1..Len(pts) : ~readable(k)
          THEN Raised(self, "IndexError")
          ELSE Returned([self EXCEPT !.comparison_results =
                                         self.comparison_results \o results,
                                     !.threshold_at_comparison =
                                         self.significance_threshold],
                        results)

\* a comparison that stores the results it computed before an IndexError
compare_pixels_partial(self) ==
    IF self.test_points = << >> THEN Returned(self, << >>)
    ELSE IF self.reference_image = NoneImage \/ self.test_image = NoneImage
    THEN Returned(self, << >>)
    ELSE
      LET pts == self.test_points
          readable(k) == /\ IndexOk(self.reference_image, pts[k][1], pts[k][2])
                         /\ IndexOk(self.test_image, pts[k][1], pts[k][2])
          results == [k \in 1..Len(pts) |->
                        PointResult(k, pts[k][1], pts[k][2],
                                    PixelAt(self.reference_image, pts[k][1], pts[k][2]),
                                    PixelAt(self.test_image, pts[k][1], pts[k][2]),
                                    self.significance_threshold)]
          bad == {k \in 1..Len(pts) : ~readable(k)}
          first_bad == CHOOSE k \in bad : \A m \in bad : k <= m
      IN  IF bad # {}
          THEN Raised([self EXCEPT !.comparison_results =
                                       SubSeq(results, 1, first_bad - 1)],
                      "IndexError")
          ELSE Returned([self EXCEPT !.comparison_results = results,
                                     !.threshold_at_comparison =
                                         self.significance_threshold],
                        results)

compare_pixels(self) ==
    IF self.test_points = << >> THEN Returned(self, << >>)
    ELSE IF self.reference_image = NoneImage \/ self.test_image = NoneImage
    THEN Returned(self, << >>)
    ELSE
      LET pts == self.test_points
          readable(k) == /\ IndexOk(self.reference_image, pts[k][1], pts[k][2])
                         /\ IndexOk(self.test_image, pts[k][1], pts[k][2])
          results == [k \in 1..Len(pts) |->
                        PointResult(k, pts[k][1], pts[k][2],
                                    PixelAt(self.reference_image, pts[k][1], pts[k][2]),
                                    PixelAt(self.test_image, pts[k][1], pts[k][2]),
                                    self.significance_threshold)]
      IN  IF \E k \in 1..Len(pts) : ~readable(k)
          THEN Raised(self, "IndexError")
          ELSE Returned([self EXCEPT !.comparison_results = results,
                                     !.threshold_at_comparison =
                                         self.significance_threshold],
                        results)

(***************************************************************************)
(* _calculate_quality_grade: the grade label for a pass rate               *)
(***************************************************************************)
\* a grader whose lower bounds are exclusive
calculate_quality_grade_exclusive(pass_rate) ==
    IF pass_rate > EXCELLENT_THRESHOLD THEN GRADE_EXCELLENT
    ELSE IF pass_rate > GOOD_THRESHOLD THEN GRADE_GOOD
    ELSE IF pass_rate > ACCEPTABLE_THRESHOLD THEN GRADE_ACCEPTABLE
    ELSE GRADE_FAIL

calculate_quality_grade(pass_rate) ==
    IF pass_rate >= EXCELLENT_THRESHOLD THEN GRADE_EXCELLENT
    ELSE IF pass_rate >= GOOD_THRESHOLD THEN GRADE_GOOD
    ELSE IF pass_rate >= ACCEPTABLE_THRESHOLD THEN GRADE_ACCEPTABLE
    ELSE GRADE_FAIL

(***************************************************************************)
(* generate_report                                                         *)
(***************************************************************************)
\* a rate that counts the failed points instead of the passed ones
PassRate_of_failures(total_points, significant) ==
    (significant * 100000) \div total_points

\* pass_rate = ((total - significant) / total) * 100, in thousandths of a
\* percent (rounded down), for total > 0
PassRate(total_points, significant) ==
    ((total_points - significant) * 100000) \div total_points

SignificantCount(results) ==
    Cardinality({k \in 1..Len(results) : results[k].is_significant})

\* a report that lists every result as passed
ReportStatus_all_pass(result) == "PASS"

\* status = "FAIL (Significant defect)" if result['is_significant'] else "PASS"
ReportStatus(result) ==
    IF result.is_significant THEN "FAIL (Significant defect)" ELSE "PASS"

\* generate_report: the text returned, as the facts it states: the summary
\* numbers, one entry per result under DETAILED PIXEL ANALYSIS, and the
\* threshold printed under TECHNICAL DETAILS ("differences >= <threshold>
\* are flagged").
generate_report(self) ==
    IF self.comparison_results = << >>
    THEN Returned(self, <<"No comparison results available">>)
    ELSE
      LET results == self.comparison_results
          total_points == Len(results)
          significant_failures == SignificantCount(results)
          pass_rate == PassRate(total_points, significant_failures)
      IN  Returned(self,
            <<[total_points |-> total_points,
               significant_failures |-> significant_failures,
               pass_rate |-> pass_rate,
               grade |-> calculate_quality_grade(pass_rate),
               detailed |-> [k \in 1..Len(results) |->
                               [point_id |-> results[k].point_id,
                                coordinates |-> results[k].coordinates,
                                total_difference |-> results[k].total_difference,
                                status |-> ReportStatus(results[k])]],
               flagged_from |-> self.significance_threshold]>>)

(***************************************************************************)
(* visualize_comparison: the chart, as the colours and texts it shows.     *)
(***************************************************************************)
\* a verdict that needs more than 75 percent
BinaryVerdict_above(pass_rate) ==
    IF pass_rate > ACCEPTABLE_THRESHOLD THEN "PASS" ELSE "FAIL"

\* "PASS" if pass_rate >= 75 else "FAIL": the summary row of the chart, the
\* command line summary and the interactive summary; pass_rate in
\* thousandths of a percent
BinaryVerdict(pass_rate) == IF pass_rate >= 75000 THEN "PASS" ELSE "FAIL"

\* 'ro' if self.comparison_results[i]['is_significant'] else 'go'
MarkerColour(result) == IF result.is_significant THEN "red" ELSE "green"

\* 'red' if d > self.significance_threshold else 'green'
BarColour(d, threshold) == IF SqrtGt(d, threshold) THEN "red" ELSE "green"

\* status = "FAIL" if result['is_significant'] else "PASS"
TableStatus(result) == IF result.is_significant THEN "FAIL" ELSE "PASS"

visualize_comparison(self) ==
    IF self.reference_image = NoneImage \/ self.test_image = NoneImage
    THEN Returned(self, << >>)
    ELSE IF self.comparison_results = << >> THEN Returned(self, << >>)
    ELSE
      LET results == self.comparison_results
          pts == self.test_points
          significant_count == SignificantCount(results)
          pass_rate == PassRate(Len(results), significant_count)
      IN  \* self.comparison_results[i] for the i-th test point
          IF Len(pts) > Len(results) THEN Raised(self, "IndexError")
          ELSE Returned(self,
                 <<[reference_markers |-> pts,
                    test_markers |-> [k \in 1..Len(pts) |->
                                        [point |-> pts[k],
                                         colour |-> MarkerColour(results[k])]],
                    bars |-> [k \in 1..Len(results) |->
                                BarColour(results[k].total_difference,
                                          self.significance_threshold)],
                    table |-> [k \in 1..Len(results) |->
                                 [point_id |-> results[k].point_id,
                                  coordinates |-> results[k].coordinates,
                                  total_difference |-> results[k].total_difference,
                                  status |-> TableStatus(results[k])]],
                    summary |-> [failures |-> significant_count,
                                 pass_rate |-> pass_rate,
                                 verdict |-> BinaryVerdict(pass_rate)]]>>)

(***************************************************************************)
(* run_full_analysis: load, generate, compare, write outputs; the run      *)
(* returns at the first step that fails, and an exception of a step        *)
(* leaves the run.  Yields [self, exc, ret, steps].                        *)
(***************************************************************************)
WithSteps(r, st) == [self |-> r.self, exc |-> r.exc, ret |-> r.ret, steps |-> st]

OutputSteps(save_visualization, save_report) ==
    <<"visualize_comparison">> \o
    (IF save_report THEN <<"generate_report">> ELSE << >>)

\* a run that goes on to generate the points when loading the images failed
run_full_analysis_no_abort(self, rf, tf, num_points, method, custom_points, seed, save_visualization, save_report) ==
    LET loaded == load_images(self, rf, tf)
        gen == generate_test_points(loaded.self, num_points, method,
                                    custom_points, seed)
        compared == compare_pixels(gen.self)
        s1 == <<"load_images">>
        s2 == s1 \o <<"generate_test_points">>
        s3 == s2 \o <<"compare_pixels">>
    IN  IF gen.exc # "none" THEN WithSteps(gen, s2)
        ELSE IF gen.self.test_points = << >>
        THEN WithSteps(Returned(gen.self, << >>), s2)
        ELSE IF compared.exc # "none" THEN WithSteps(compared, s3)
        ELSE IF compared.self.comparison_results = << >>
        THEN WithSteps(Returned(compared.self, << >>), s3)
        ELSE WithSteps(Returned(compared.self, << >>),
                       s3 \o OutputSteps(save_visualization, save_report))

run_full_analysis(self, rf, tf, num_points, method, custom_points, seed, save_visualization, save_report) ==
    LET loaded == load_images(self, rf, tf)
        gen == generate_test_points(loaded.self, num_points, method,
                                    custom_points, seed)
        compared == compare_pixels(gen.self)
        s1 == <<"load_images">>
        s2 == s1 \o <<"generate_test_points">>
        s3 == s2 \o <<"compare_pixels">>
    IN  IF loaded.ret = <<FALSE>>
        THEN WithSteps(Returned(loaded.self, << >>), s1)
        ELSE IF gen.exc # "none" THEN WithSteps(gen, s2)
        ELSE IF gen.self.test_points = << >>
        THEN WithSteps(Returned(gen.self, << >>), s2)
        ELSE IF compared.exc # "none" THEN WithSteps(compared, s3)
        ELSE IF compared.self.comparison_results = << >>
        THEN WithSteps(Returned(compared.self, << >>), s3)
        ELSE WithSteps(Returned(compared.self, << >>),
                       s3 \o OutputSteps(save_visualization, save_report))

(***************************************************************************)
(* cli_tool.main.  args: reference and test are the two files of the       *)
(* model; custom = << >> stands for an absent --custom.  Yields            *)
(* [self, exc, ret, steps] with ret = <<exit status>>; self is the         *)
(* checker the run created (the instance as constructed when none was).    *)
(***************************************************************************)
CliExit(self, status, st) ==
    [self |-> self, exc |-> "none", ret |-> <<status>>, steps |-> st]

\* args.points after lines 91-105
CliPoints(method, points, custom) ==
    LET p1 == IF method = "custom" THEN Len(custom) ELSE points
    IN  IF p1 # 8 /\ custom = << >> THEN 8 ELSE p1

cli_main(rf, tf, method, points, custom, no_save, threshold, seed) ==
    IF rf = "missing" \/ tf = "missing" THEN CliExit(Constructed, 1, << >>)
    ELSE IF method = "custom" /\ custom = << >>
    THEN CliExit(Constructed, 1, << >>)
    ELSE
      LET custom_points == IF method = "custom" THEN custom ELSE << >>
          set == set_significance_threshold(Constructed, threshold)
          run == run_full_analysis(set.self, rf, tf,
                                   CliPoints(method, points, custom),
                                   method, custom_points, seed,
                                   ~no_save, ~no_save)
          s0  == <<"set_significance_threshold">>
      IN  IF set.exc # "none" THEN CliExit(set.self, 1, s0)
          ELSE CliExit(run.self, IF run.exc # "none" THEN 1 ELSE 0,
                       s0 \o run.steps)

(***************************************************************************)
(* interactive_demo.run_interactive_demo with the method 'custom', for     *)
(* two files that exist: the points the user typed are assigned to         *)
(* test_points as they are.  Yields [self, exc, ret, steps]; ret is the    *)
(* summary printed, steps ends with "pass_rate" when the pass rate was     *)
(* computed.                                                               *)
(***************************************************************************)
run_interactive_demo_custom(rf, tf, custom_points, save_report) ==
    LET loaded == load_images(Constructed, rf, tf)
        assigned == [loaded.self EXCEPT !.test_points = custom_points]
        compared == compare_pixels(assigned)
        vis == visualize_comparison(compared.self)
        s2 == <<"load_images", "compare_pixels">>
        s3 == s2 \o <<"visualize_comparison">>
        s4 == s3 \o (IF save_report THEN <<"generate_report">> ELSE << >>)
        results == compared.self.comparison_results
        pass_rate == PassRate(Len(results), SignificantCount(results))
    IN  IF compared.exc # "none" THEN WithSteps(compared, s2)
        ELSE IF vis.exc # "none" THEN WithSteps(vis, s3)
        ELSE IF results = << >>
        THEN WithSteps(Raised(compared.self, "ZeroDivisionError"),
                       s4 \o <<"pass_rate">>)
        ELSE WithSteps(Returned(compared.self,
                                <<[pass_rate |-> pass_rate,
                                   verdict |-> BinaryVerdict(pass_rate)]>>),
                       s4 \o <<"pass_rate">>)

(***************************************************************************)
(* The inputs of the model.                                                *)
(***************************************************************************)
Counts == 0..MaxCount

SamplerCounts == 0..MaxSamplerCount

Seeds == 0..MaxSeed

Methods == {"random", "grid", "strategic", "custom"}

\* custom point lists; the bounds they are checked against are those of the
\* 52x51 and 12x12 images
CustomLists ==
    { << >>,
      << <<0, 3>>, <<51, 50>> >>,
      << <<52, 0>>, <<1, 2>>, <<-1, 3>>, <<1, 2>>, <<0, 51>> >> }

Thresholds == {-1, 0, 30, 31}

\* pass rates: every eighth of a percent of 0..100, and the values just
\* below the grade boundaries
PassRates ==
    {k * 125 : k \in 0..800} \cup {74999, 87499, 94999}

\* the files at (reference_image_path, test_image_path)
FilePairs ==
    { <<"refB", "testB">>, <<"tiny", "testB">>, <<"refB", "tiny">>,
      <<"refB", "corrupt">>, <<"missing", "testB">> }

\* the two runs
Threads == {1, 2}

\* a run that has not started: its instance as constructed; pc is the step
\* of run_full_analysis the run takes next
IdleThread ==
    [pc |-> "idle", self |-> Constructed, num_points |-> 0, method |-> "",
     timestamp |-> 0]

\* the (method, num_points) a concurrent run is started with
ConcurrentArgs == { <<"grid", 1>>, <<"grid", 2>>, <<"strategic", 1>> }

\* lists of eight points of the 52x51 pair: one with one significant
\* difference, one with three
ReportLists ==
    { << <<0, 0>>, <<1, 0>>, <<4, 0>>, <<5, 0>>,
         <<6, 0>>, <<9, 0>>, <<10, 0>>, <<3, 0>> >>,
      << <<3, 0>>, <<0, 0>>, <<8, 0>>, <<5, 0>>,
         <<13, 0>>, <<10, 0>>, <<15, 0>>, <<20, 0>> >> }

\* what the user of the interactive demo types: eight points with no
\* negative coordinate; the last list has points to the right of the 52x51
\* images
DemoLists ==
    ReportLists \cup
    { << <<0, 0>>, <<1, 0>>, <<60, 0>>, <<5, 0>>,
         <<6, 0>>, <<9, 0>>, <<10, 0>>, <<3, 0>> >> }

NoCall ==
    [op |-> "__init__", num_points |-> 0, method |-> "", custom_points |-> << >>,
     threshold |-> 0, pass_rate |-> 0, no_save |-> FALSE, seed |-> 0]

(***************************************************************************)
(* The state machine.                                                      *)
(***************************************************************************)
Init ==
    /\ \E fp \in FilePairs : ref_file = fp[1] /\ test_file = fp[2]
    /\ reference_image = Constructed.reference_image
    /\ test_image = Constructed.test_image
    /\ test_points = Constructed.test_points
    /\ comparison_results = Constructed.comparison_results
    /\ significance_threshold = Constructed.significance_threshold
    /\ threshold_at_comparison = Constructed.threshold_at_comparison
    /\ call = NoCall
    /\ outcome = [exc |-> "none", ret |-> << >>]
    /\ steps = << >>
    /\ clock = 0
    /\ reports = {}
    /\ threads = [t \in Threads |-> IdleThread]

\* the instance becomes r.self and the call's outcome is recorded
Finish(r, c, st) ==
    /\ reference_image' = r.self.reference_image
    /\ test_image' = r.self.test_image
    /\ test_points' = r.self.test_points
    /\ comparison_results' = r.self.comparison_results
    /\ significance_threshold' = r.self.significance_threshold
    /\ threshold_at_comparison' = r.self.threshold_at_comparison
    /\ call' = c
    /\ outcome' = [exc |-> r.exc, ret |-> r.ret]
    /\ steps' = st
    /\ UNCHANGED <<ref_file, test_file, clock, reports, threads>>

\* the command line tool is a process of its own: it starts with no
\* instance and the instance it created ends with it
ProcessRunning == call.op \notin {"cli_main", "run_interactive_demo"}

\* arguments a strategy does not read are kept at one value
ArgsNormal(method, custom_points, seed) ==
    /\ method # "custom" => custom_points = << >>
    /\ method # "random" => seed = 0

SetSignificanceThreshold(threshold) ==
    /\ ProcessRunning
    /\ Finish(set_significance_threshold(Self, threshold),
              [NoCall EXCEPT !.op = "set_significance_threshold",
                             !.threshold = threshold],
              <<"set_significance_threshold">>)

LoadImages ==
    /\ ProcessRunning
    /\ Finish(load_images(Self, ref_file, test_file),
              [NoCall EXCEPT !.op = "load_images"], <<"load_images">>)

GenerateTestPoints(num_points, method, custom_points, seed) ==
    /\ ProcessRunning
    /\ ArgsNormal(method, custom_points, seed)
    /\ Finish(generate_test_points(Self, num_points, method, custom_points, seed),
              [NoCall EXCEPT !.op = "generate_test_points",
                             !.num_points = num_points,
                             !.method = method,
                             !.custom_points = custom_points,
                             !.seed = seed],
              <<"generate_test_points">>)

ComparePixels ==
    /\ ProcessRunning
    /\ Finish(compare_pixels(Self), [NoCall EXCEPT !.op = "compare_pixels"],
              <<"compare_pixels">>)

GenerateReport ==
    /\ ProcessRunning
    /\ Finish(generate_report(Self), [NoCall EXCEPT !.op = "generate_report"],
              <<"generate_report">>)

CalculateQualityGrade(pass_rate) ==
    /\ ProcessRunning
    /\ Finish(Returned(Self, <<calculate_quality_grade(pass_rate)>>),
              [NoCall EXCEPT !.op = "_calculate_quality_grade",
                             !.pass_rate = pass_rate],
              <<"_calculate_quality_grade">>)

RunFullAnalysis(num_points, method, custom_points, seed, save) ==
    /\ ProcessRunning
    /\ ArgsNormal(method, custom_points, seed)
    /\ LET r == run_full_analysis(Self, ref_file, test_file, num_points, method,
                                  custom_points, seed, save, save)
       IN  Finish(r, [NoCall EXCEPT !.op = "run_full_analysis",
                                    !.num_points = num_points,
                                    !.method = method,
                                    !.custom_points = custom_points,
                                    !.seed = seed,
                                    !.no_save = ~save],
                  r.steps)

CliMain(method, points, custom, no_save, threshold, seed) ==
    /\ call = NoCall
    /\ method # "random" => seed = 0
    /\ LET r == cli_main(ref_file, test_file, method, points, custom, no_save,
                         threshold, seed)
       IN  Finish(r, [NoCall EXCEPT !.op = "cli_main",
                                    !.num_points = points,
                                    !.method = method,
                                    !.custom_points = custom,
                                    !.threshold = threshold,
                                    !.seed = seed,
                                    !.no_save = no_save],
                  r.steps)

VisualizeComparison ==
    /\ ProcessRunning
    /\ Finish(visualize_comparison(Self),
              [NoCall EXCEPT !.op = "visualize_comparison"],
              <<"visualize_comparison">>)

\* the interactive demo is a process of its own, as the command line tool
InteractiveDemoCustom(custom_points, save) ==
    /\ call = NoCall
    /\ ref_file # "missing"
    /\ test_file # "missing"
    /\ LET r == run_interactive_demo_custom(ref_file, test_file, custom_points,
                                            save)
       IN  Finish(r, [NoCall EXCEPT !.op = "run_interactive_demo",
                                    !.method = "custom",
                                    !.custom_points = custom_points,
                                    !.no_save = ~save],
                  r.steps)

\* the expression of the binary verdict on its own
SummaryVerdict(pass_rate) ==
    /\ ProcessRunning
    /\ Finish(Returned(Self, <<BinaryVerdict(pass_rate)>>),
              [NoCall EXCEPT !.op = "summary_verdict", !.pass_rate = pass_rate],
              << >>)

Next ==
    \/ \E t \in Thresholds : SetSignificanceThreshold(t)
    \/ LoadImages
    \/ \E n \in Counts, m \in Methods, c \in CustomLists, s \in Seeds :
          GenerateTestPoints(n, m, c, s)
    \/ ComparePixels
    \/ GenerateReport
    \/ VisualizeComparison
    \/ \E n \in Counts, m \in Methods, c \in CustomLists, s \in Seeds :
          RunFullAnalysis(n, m, c, s, TRUE)
    \/ \E c \in DemoLists, sv \in BOOLEAN : InteractiveDemoCustom(c, sv)
    \/ \E m \in Methods, n \in Counts \cup {8}, c \in CustomLists,
          ns \in BOOLEAN, t \in Thresholds, s \in Seeds :
          CliMain(m, n, c, ns, t, s)

Spec == Init /\ [][Next]_vars

(***************************************************************************)
(* The sampler alone: generate_test_points on a loaded or unloaded         *)
(* instance, over the wider range of counts.                               *)
(***************************************************************************)
\* the files of the sampler: those of FilePairs, an 800x600 photograph and
\* a 3x3 icon
SamplerFilePairs == FilePairs \cup { <<"photo", "photo">>, <<"icon", "icon">> }

InitSampler ==
    /\ \E fp \in SamplerFilePairs : ref_file = fp[1] /\ test_file = fp[2]
    /\ reference_image = Constructed.reference_image
    /\ test_image = Constructed.test_image
    /\ test_points = Constructed.test_points
    /\ comparison_results = Constructed.comparison_results
    /\ significance_threshold = Constructed.significance_threshold
    /\ threshold_at_comparison = Constructed.threshold_at_comparison
    /\ call = NoCall
    /\ outcome = [exc |-> "none", ret |-> << >>]
    /\ steps = << >>
    /\ clock = 0
    /\ reports = {}
    /\ threads = [t \in Threads |-> IdleThread]

NextSampler ==
    \/ LoadImages
    \/ \E n \in SamplerCounts, m \in Methods, c \in CustomLists, s \in Seeds :
          GenerateTestPoints(n, m, c, s)

SpecSampler == InitSampler /\ [][NextSampler]_vars

(***************************************************************************)
(* The sampler with a file system that changes: cv2.imread reads the file  *)
(* at reference_image_path anew at every load_images, and the file may     *)
(* have been removed since the previous load.                              *)
(***************************************************************************)
ReferenceFileRemoved ==
    /\ ProcessRunning
    /\ ref_file \in ImageFiles
    /\ ref_file' = "missing"
    /\ UNCHANGED <<test_file, reference_image, test_image, test_points,
                   comparison_results, significance_threshold,
                   threshold_at_comparison, call, outcome, steps, clock,
                   reports, threads>>

NextFiles ==
    \/ LoadImages
    \/ \E n \in Counts, m \in Methods, c \in CustomLists, s \in Seeds :
          GenerateTestPoints(n, m, c, s)
    \/ ReferenceFileRemoved

SpecFiles == Init /\ [][NextFiles]_vars

(***************************************************************************)
(* The report: batches of up to eight results with 0 to 8 significant      *)
(* points, summarised by generate_report.                                  *)
(***************************************************************************)
ReportCounts == {1, 4, 8}

ReportThresholds == {30, 31}

NextReport ==
    \/ \E t \in ReportThresholds : SetSignificanceThreshold(t)
    \/ LoadImages
    \/ \E n \in ReportCounts, m \in Methods, c \in ReportLists \cup {<< >>},
          s \in Seeds : GenerateTestPoints(n, m, c, s)
    \/ ComparePixels
    \/ GenerateReport

SpecReport == Init /\ [][NextReport]_vars

(***************************************************************************)
(* Two runs of run_full_analysis at the same time, each on an instance of  *)
(* its own, over the files of the model.  A run takes the steps of         *)
(* run_full_analysis one at a time; the runs share the clock and the       *)
(* directory reports/.                                                     *)
(***************************************************************************)
\* session_folder = f"reports/analysis_{timestamp}_{method}"
SessionFolder(timestamp, method) == <<"reports", "analysis", timestamp, method>>

\* vis_path = f"{session_folder}/comparison_visualization_{timestamp}.png"
VisPath(timestamp, method) ==
    SessionFolder(timestamp, method) \o <<"comparison_visualization", timestamp>>

\* report_path = f"{session_folder}/comparison_report_{timestamp}.txt"
ReportPath(timestamp, method) ==
    SessionFolder(timestamp, method) \o <<"comparison_report", timestamp>>

\* plt.savefig(save_path) and open(output_path, 'w'): the file at path is
\* created or overwritten
WriteFile(fs, path, content) ==
    {f \in fs : f.path # path} \cup {[path |-> path, content |-> content]}

\* Step 1: if not self.load_images(): return
ThreadLoad(th, rf, tf) ==
    LET r == load_images(th.self, rf, tf)
    IN  [th EXCEPT !.self = r.self,
                   !.pc = IF r.ret = <<FALSE>> THEN "done" ELSE "generate"]

\* Step 2: generate_test_points; if not self.test_points: return
ThreadGenerate(th) ==
    LET r == generate_test_points(th.self, th.num_points, th.method, << >>, 0)
    IN  [th EXCEPT !.self = r.self,
                   !.pc = IF r.exc # "none" \/ r.self.test_points = << >>
                          THEN "done" ELSE "compare"]

\* Step 3: compare_pixels; if not self.comparison_results: return
ThreadCompare(th) ==
    LET r == compare_pixels(th.self)
    IN  [th EXCEPT !.self = r.self,
                   !.pc = IF r.exc # "none" \/ r.self.comparison_results = << >>
                          THEN "done" ELSE "stamp"]

\* Step 4: timestamp = datetime.now().strftime('%Y%m%d_%H%M%S');
\* os.makedirs(session_folder, exist_ok=True) accepts a folder that exists
ThreadStamp(th, now) == [th EXCEPT !.timestamp = now, !.pc = "visualize"]

\* what visualize_comparison draws: the points and their results
VisContent(th) ==
    [test_points |-> th.self.test_points,
     comparison_results |-> th.self.comparison_results]

\* what generate_report writes
ReportContent(th) == generate_report(th.self).ret

StartRuns(a1, a2) ==
    /\ \A t \in Threads : threads[t].pc = "idle"
    /\ threads' = [t \in Threads |->
                     LET a == IF t = 1 THEN a1 ELSE a2
                     IN  [IdleThread EXCEPT !.pc = "load", !.method = a[1],
                                            !.num_points = a[2]]]
    /\ UNCHANGED <<ref_file, test_file, reference_image, test_image,
                   test_points, comparison_results, significance_threshold,
                   threshold_at_comparison, call, outcome, steps, clock,
                   reports>>

\* a step of run t that touches its instance only
ThreadStep(t, pc, th) ==
    /\ threads[t].pc = pc
    /\ threads' = [threads EXCEPT ![t] = th]
    /\ UNCHANGED <<ref_file, test_file, reference_image, test_image,
                   test_points, comparison_results, significance_threshold,
                   threshold_at_comparison, call, outcome, steps, clock,
                   reports>>

RunLoad(t) == ThreadStep(t, "load", ThreadLoad(threads[t], ref_file, test_file))

RunGenerate(t) == ThreadStep(t, "generate", ThreadGenerate(threads[t]))

RunCompare(t) == ThreadStep(t, "compare", ThreadCompare(threads[t]))

RunStamp(t) == ThreadStep(t, "stamp", ThreadStamp(threads[t], clock))

\* a step of run t that writes a file
ThreadWrite(t, pc, path, content, next_pc) ==
    /\ threads[t].pc = pc
    /\ reports' = WriteFile(reports, path, content)
    /\ threads' = [threads EXCEPT ![t].pc = next_pc]
    /\ UNCHANGED <<ref_file, test_file, reference_image, test_image,
                   test_points, comparison_results, significance_threshold,
                   threshold_at_comparison, call, outcome, steps, clock>>

RunVisualize(t) ==
    ThreadWrite(t, "visualize",
                VisPath(threads[t].timestamp, threads[t].method),
                VisContent(threads[t]), "report")

RunReport(t) ==
    ThreadWrite(t, "report",
                ReportPath(threads[t].timestamp, threads[t].method),
                ReportContent(threads[t]), "done")

\* a second passes
Tick ==
    /\ clock < MaxClock
    /\ clock' = clock + 1
    /\ UNCHANGED <<ref_file, test_file, reference_image, test_image,
                   test_points, comparison_results, significance_threshold,
                   threshold_at_comparison, call, outcome, steps, reports,
                   threads>>

NextConcurrent ==
    \/ \E a1 \in ConcurrentArgs, a2 \in ConcurrentArgs : StartRuns(a1, a2)
    \/ \E t \in Threads : RunLoad(t)
    \/ \E t \in Threads : RunGenerate(t)
    \/ \E t \in Threads : RunCompare(t)
    \/ \E t \in Threads : RunStamp(t)
    \/ \E t \in Threads : RunVisualize(t)
    \/ \E t \in Threads : RunReport(t)
    \/ Tick

SpecConcurrent == Init /\ [][NextConcurrent]_vars

\* run th from its start to its end with no other run in between, the
\* clock showing now at Step 4; yields the run and the files afterwards
RunAlone(th, rf, tf, now, fs) ==
    LET a == ThreadLoad(th, rf, tf)
        b == IF a.pc = "generate" THEN ThreadGenerate(a) ELSE a
        c == IF b.pc = "compare" THEN ThreadCompare(b) ELSE b
        d == IF c.pc = "stamp" THEN ThreadStamp(c, now) ELSE c
        wrote == d.pc = "visualize"
        fs1 == IF wrote
               THEN WriteFile(fs, VisPath(d.timestamp, d.method), VisContent(d))
               ELSE fs
        fs2 == IF wrote
               THEN WriteFile(fs1, ReportPath(d.timestamp, d.method),
                              ReportContent(d))
               ELSE fs1
    IN  [thread |-> [d EXCEPT !.pc = "done"], reports |-> fs2]

(***************************************************************************)
(* The grader alone: _calculate_quality_grade over the pass rates.         *)
(***************************************************************************)
NextGrade == \E pr \in PassRates : CalculateQualityGrade(pr)

SpecGrade == Init /\ [][NextGrade]_vars

(***************************************************************************)
(* The binary verdict alone, over the pass rates.                          *)
(***************************************************************************)
NextVerdict == \E pr \in PassRates : SummaryVerdict(pr)

SpecVerdict == Init /\ [][NextVerdict]_vars

(***************************************************************************)
(* Claims.                                                                 *)
(***************************************************************************)
Returns(op) == call.op = op /\ outcome.exc = "none"

\* the squared Euclidean distance of two colour triples
SquaredDistance(a, b) ==
    (a[1] - b[1]) * (a[1] - b[1]) + (a[2] - b[2]) * (a[2] - b[2])
      + (a[3] - b[3]) * (a[3] - b[3])

\* C1: _calculate_quality_grade gives every pass rate of 0..100 exactly one
\* grade, with inclusive lower bounds taken highest first: >= 95 EXCELLENT,
\* else >= 87.5 GOOD, else >= 75 ACCEPTABLE, else FAIL; 95.0, 87.5, 75.0 and
\* 74.999 give EXCELLENT, GOOD, ACCEPTABLE and FAIL.
C1_GradeBoundaries ==
    call.op = "_calculate_quality_grade" =>
      LET pr == call.pass_rate
          g  == outcome.ret[1]
      IN  /\ outcome.exc = "none"
          /\ Len(outcome.ret) = 1
          /\ g \in {"EXCELLENT", "GOOD", "ACCEPTABLE", "FAIL"}
          /\ (g = "EXCELLENT") <=> (pr >= 95000)
          /\ (g = "GOOD") <=> (pr >= 87500 /\ pr < 95000)
          /\ (g = "ACCEPTABLE") <=> (pr >= 75000 /\ pr < 87500)
          /\ (g = "FAIL") <=> (pr < 75000)
          /\ pr = 95000 => g = "EXCELLENT"
          /\ pr = 87500 => g = "GOOD"
          /\ pr = 75000 => g = "ACCEPTABLE"
          /\ pr = 74999 => g = "FAIL"

\* C1 witness: the grader has been applied to 75.0 and answered ACCEPTABLE
C1_Witness ==
    /\ Returns("_calculate_quality_grade")
    /\ call.pass_rate = 75000
    /\ outcome.ret = <<"ACCEPTABLE">>

\* C2: every point compare_pixels produces is significant exactly when its
\* total difference is strictly greater than the threshold active at the
\* comparison; a total difference equal to the threshold is not significant.
\* (compare_pixels does not change the threshold, so the threshold of the
\* state after the call is the one the call read.)
C2_StrictlyGreater ==
    Returns("compare_pixels") =>
      \A k \in 1..Len(outcome.ret) :
        LET r == outcome.ret[k]
            d == SquaredDistance(r.test_rgb, r.reference_rgb)
        IN  /\ r.total_difference = d
            /\ r.is_significant <=>
                 (d > significance_threshold * significance_threshold)
            /\ d = significance_threshold * significance_threshold
                 => ~r.is_significant

\* C2 witness: compare_pixels returned a point exactly at the threshold,
\* not significant, and a point above it, significant
C2_Witness ==
    /\ Returns("compare_pixels")
    /\ \E k \in 1..Len(outcome.ret) :
          /\ outcome.ret[k].total_difference
               = significance_threshold * significance_threshold
          /\ ~outcome.ret[k].is_significant
    /\ \E k \in 1..Len(outcome.ret) : outcome.ret[k].is_significant

\* the report was generated from a result list
ReportListed == Returns("generate_report") /\ comparison_results # << >>

C4_PointsInBounds ==
    Returns("generate_test_points") =>
      \A k \in 1..Len(outcome.ret) :
        /\ 0 <= outcome.ret[k][1] /\ outcome.ret[k][1] < reference_image.w
        /\ 0 <= outcome.ret[k][2] /\ outcome.ret[k][2] < reference_image.h

\* C5 as stated: generate_test_points returns at most num_points
\* coordinates, for every strategy, and at most 8 for the strategic one.
C5_AtMostNumPoints ==
    Returns("generate_test_points") =>
      /\ Len(outcome.ret) <= call.num_points
      /\ call.method = "strategic" => Len(outcome.ret) <= 8

\* C5 amended: with the random, grid and strategic strategies
\* generate_test_points returns at most num_points coordinates, and at most
\* 8 with the strategic one; with the custom strategy it returns at most as
\* many coordinates as the caller supplied, whatever num_points is.
C5_AtMostRequested ==
    Returns("generate_test_points") =>
      /\ call.method \in {"random", "grid", "strategic"}
           => Len(outcome.ret) <= call.num_points
      /\ call.method = "strategic" => Len(outcome.ret) <= 8
      /\ call.method = "custom"
           => Len(outcome.ret) <= Len(call.custom_points)

\* C5 witness: the strategic strategy was asked for more than 8 points and
\* returned 8
C5_Witness ==
    /\ Returns("generate_test_points")
    /\ call.method = "strategic"
    /\ call.num_points > 8
    /\ Len(outcome.ret) = 8

\* both buffers are loaded and their sizes differ
DimensionMismatch ==
    /\ reference_image # NoneImage
    /\ test_image # NoneImage
    /\ reference_image.w # test_image.w \/ reference_image.h # test_image.h

\* C6: when the loaded reference and test buffers differ in width or
\* height, compare_pixels returns no PointResult and run_full_analysis does
\* not get past the comparison.
C6_MismatchRejected ==
    DimensionMismatch =>
      /\ Returns("compare_pixels") => outcome.ret = << >>
      /\ call.op \in {"run_full_analysis", "cli_main"}
           => \A k \in 1..Len(steps) : steps[k] # "visualize_comparison"

\* C7: whenever the reference buffer, the test buffer or both are missing,
\* generate_test_points returns an empty list and compare_pixels returns an
\* empty list.
C7_NotLoadedGivesEmpty ==
    (reference_image = NoneImage \/ test_image = NoneImage) =>
      /\ call.op = "generate_test_points"
           => outcome.exc = "none" /\ outcome.ret = << >>
      /\ call.op = "compare_pixels"
           => outcome.exc = "none" /\ outcome.ret = << >>

\* the image is too small for the margins of the strategy
TooSmallFor(method, img) ==
    \/ method = "random" /\ (img.w < 2 * RANDOM_MARGIN \/ img.h < 2 * RANDOM_MARGIN)
    \/ method = "strategic" /\ (img.w <= STRATEGIC_MARGIN \/ img.h <= STRATEGIC_MARGIN)

\* C8: on degenerate inputs (no reference image loaded, a requested count
\* of 0, an image too small for the margins of the strategy)
\* generate_test_points returns an empty sequence and raises nothing.
C8_DegenerateGivesEmpty ==
    ( /\ call.op = "generate_test_points"
      /\ \/ reference_image = NoneImage
         \/ call.num_points = 0
         \/ TooSmallFor(call.method, reference_image) )
    => outcome.exc = "none" /\ outcome.ret = << >>

\* C9: set_significance_threshold rejects every threshold <= 0 with an
\* error and leaves the stored threshold unchanged, so the threshold of the
\* instance is positive after every call; the command line tool, given a
\* threshold <= 0, exits with status 1 having loaded, sampled and compared
\* nothing.
C9_ThresholdStaysPositive ==
    [][ /\ significance_threshold > 0
        /\ significance_threshold' > 0
        /\ (call'.op = "set_significance_threshold" /\ call'.threshold <= 0)
             => /\ outcome'.exc = "ValueError"
                /\ significance_threshold' = significance_threshold
        /\ (call'.op = "set_significance_threshold" /\ call'.threshold > 0)
             => /\ outcome'.exc = "none"
                /\ significance_threshold' = call'.threshold
        /\ (call'.op = "cli_main" /\ call'.threshold <= 0)
             => /\ outcome'.ret = <<1>>
                /\ \A k \in 1..Len(steps') :
                      steps'[k] = "set_significance_threshold"
                /\ reference_image' = NoneImage
                /\ test_points' = << >>
                /\ comparison_results' = << >>
      ]_vars

\* C9 witness: the command line tool was given an existing pair of files
\* and a threshold <= 0, and ended at the rejected threshold
C9_Witness ==
    /\ call.op = "cli_main"
    /\ call.threshold <= 0
    /\ steps = <<"set_significance_threshold">>
    /\ outcome.ret = <<1>>

\* C10: set_significance_threshold after compare_pixels leaves every stored
\* PointResult as it was: all seven fields, is_significant included, keep
\* the values computed with the threshold active at the comparison.
C10_ResultsKeptOnThresholdChange ==
    [][ call'.op = "set_significance_threshold" =>
          /\ comparison_results' = comparison_results
          /\ \A k \in 1..Len(comparison_results') :
                comparison_results'[k].is_significant <=>
                  (comparison_results'[k].total_difference
                     > threshold_at_comparison * threshold_at_comparison)
      ]_vars

\* C10 witness: the threshold was changed after a comparison, and a stored
\* result keeps a verdict the new threshold would not give
C10_Witness ==
    /\ Returns("set_significance_threshold")
    /\ significance_threshold # threshold_at_comparison
    /\ \E k \in 1..Len(comparison_results) :
          comparison_results[k].is_significant
            # (comparison_results[k].total_difference
                 > significance_threshold * significance_threshold)

\* C11 (as stated): after every call of compare_pixels that returns, the
\* stored comparison_results is the list the call returned, also when the
\* call returns the empty list because the points or the images are missing.
C11_BatchReplaced ==
    Returns("compare_pixels") => comparison_results = outcome.ret

\* C12 (as stated): after every call of generate_test_points that returns,
\* test_points is the list the call returned, for every strategy and also
\* when the call returns the empty list because no reference image is
\* loaded.
C12_TestPointsRecorded ==
    Returns("generate_test_points") => test_points = outcome.ret

\* C13: with both images loaded, compare_pixels returns one result per
\* coordinate of test_points, in the order of test_points: the result at
\* 0-based position i has point_id i + 1 and the i-th coordinate, so that a
\* coordinate listed twice gets two results with different point_ids.
C13_OneResultPerPoint ==
    (Returns("compare_pixels") /\ reference_image # NoneImage
                               /\ test_image # NoneImage)
    => /\ Len(outcome.ret) = Len(test_points)
       /\ \A i \in 0..(Len(test_points) - 1) :
             /\ outcome.ret[i + 1].point_id = i + 1
             /\ outcome.ret[i + 1].coordinates = test_points[i + 1]
       /\ \A j, k \in 1..Len(outcome.ret) :
             j # k => outcome.ret[j].point_id # outcome.ret[k].point_id

\* a batch in which one coordinate occurs twice
C13_Witness ==
    /\ Returns("compare_pixels")
    /\ Len(outcome.ret) >= 2
    /\ \E j, k \in 1..Len(outcome.ret) :
          /\ j < k
          /\ test_points[j] = test_points[k]
          /\ outcome.ret[j].coordinates = outcome.ret[k].coordinates
          /\ outcome.ret[j].point_id = j
          /\ outcome.ret[k].point_id = k

\* the result of the point of result r when the two pixels change places
Swapped(r) ==
    PointResult(r.point_id, r.coordinates[1], r.coordinates[2],
                r.test_rgb, r.reference_rgb, threshold_at_comparison)

\* C14: in every result of compare_pixels each channel difference is the
\* test value minus the reference value, a signed number of -255..255, and
\* comparing the same two pixels the other way round gives the same
\* total_difference and the negated channel differences.
C14_SwapNegates ==
    Returns("compare_pixels")
    => \A k \in 1..Len(outcome.ret) :
         LET r == outcome.ret[k]
         IN  /\ \A c \in 1..3 :
                   /\ r.rgb_difference[c] = r.test_rgb[c] - r.reference_rgb[c]
                   /\ r.rgb_difference[c] \in -255..255
                   /\ Swapped(r).rgb_difference[c] = 0 - r.rgb_difference[c]
             /\ Swapped(r).total_difference = r.total_difference
             /\ r.total_difference = SquaredDistance(r.test_rgb, r.reference_rgb)

\* a result with a negative and a positive channel difference
C14_Witness ==
    /\ Returns("compare_pixels")
    /\ \E k \in 1..Len(outcome.ret) :
          /\ outcome.ret[k].rgb_difference[1] > 0
          /\ outcome.ret[k].rgb_difference[2] < 0
          /\ Swapped(outcome.ret[k]).rgb_difference[1] < 0

\* C15: a call of compare_pixels that directly follows a call of
\* compare_pixels, with the images, test_points and the threshold as they
\* were, has the outcome of the first call and leaves the instance as the
\* first call left it.
C15_CompareIdempotent ==
    [][(call.op = "compare_pixels" /\ call'.op = "compare_pixels")
       => /\ outcome' = outcome
          /\ comparison_results' = comparison_results
          /\ test_points' = test_points
          /\ significance_threshold' = significance_threshold
          /\ threshold_at_comparison' = threshold_at_comparison
          /\ reference_image' = reference_image
          /\ test_image' = test_image]_vars

\* compare_pixels has returned a batch, which is the stored one; calling it
\* again from here is the repeated call
C15_Witness ==
    /\ Returns("compare_pixels")
    /\ Len(outcome.ret) = 2
    /\ comparison_results = outcome.ret
    /\ compare_pixels(Self).ret = outcome.ret
    /\ compare_pixels(Self).self = Self

\* the call of C16: grid, eight points, on a loaded 800x600 reference image
GridOfEightOnPhoto ==
    /\ Returns("generate_test_points")
    /\ call.method = "grid"
    /\ call.num_points = 8
    /\ reference_image.w = 800
    /\ reference_image.h = 600

\* the cells of a lattice of 3 columns by 3 rows, row by row
Lattice3x3(width, height) ==
    [k \in 1..9 |-> << ((((k - 1) % 3) + 1) * width) \div 4,
                       ((((k - 1) \div 3) + 1) * height) \div 4 >>]

OnBorder(p, width, height) ==
    p[1] = 0 \/ p[1] = width - 1 \/ p[2] = 0 \/ p[2] = height - 1

\* C16 (as stated): grid with count 8 on an 800x600 image gives the first
\* eight cells of a 3x3 lattice, none of them on the image border.
C16_Lattice3x3Truncated ==
    GridOfEightOnPhoto
    => /\ outcome.ret = SubSeq(Lattice3x3(800, 600), 1, 8)
       /\ \A k \in 1..Len(outcome.ret) : ~OnBorder(outcome.ret[k], 800, 600)

\* C16 (amended): grid with count 8 on an 800x600 image gives all eight cells
\* of a lattice of floor(sqrt(8)) = 2 columns by ceil(8 / 2) = 4 rows, row by
\* row, none of them on the image border.
C16_Lattice2x4 ==
    GridOfEightOnPhoto
    => /\ outcome.ret = << <<266, 120>>, <<533, 120>>, <<266, 240>>, <<533, 240>>,
                          <<266, 360>>, <<533, 360>>, <<266, 480>>, <<533, 480>> >>
       /\ test_points = outcome.ret
       /\ \A k \in 1..Len(outcome.ret) : ~OnBorder(outcome.ret[k], 800, 600)

C16_Witness ==
    /\ GridOfEightOnPhoto
    /\ Len(outcome.ret) = 8
    /\ outcome.ret[8] = <<533, 480>>

\* the catalogue of C17 for an image of w by h pixels, with integer division
Catalogue(w, h) ==
    << <<50, 50>>, <<w - 50, 50>>, <<50, h - 50>>, <<w - 50, h - 50>>,
       <<w \div 2, h \div 2>>, <<w \div 4, h \div 4>>,
       <<(3 * w) \div 4, h \div 4>>, <<w \div 2, (3 * h) \div 4>> >>

\* C17: on a loaded reference image of w by h pixels the strategic strategy
\* with a count >= 0 returns the first min(count, 8) entries of the catalogue
\* (50,50), (w-50,50), (50,h-50), (w-50,h-50), (w/2,h/2), (w/4,h/4),
\* (3w/4,h/4), (w/2,3h/4), in that order; a count above 8 returns all eight.
C17_StrategicCatalogue ==
    (/\ Returns("generate_test_points")
     /\ call.method = "strategic"
     /\ reference_image # NoneImage)
    => LET w == reference_image.w
           h == reference_image.h
           n == IF call.num_points < 8 THEN call.num_points ELSE 8
       IN  /\ Len(outcome.ret) = n
           /\ \A k \in 1..n : outcome.ret[k] = Catalogue(w, h)[k]

\* a cut in the middle of the catalogue and the whole catalogue
C17_Witness ==
    /\ Returns("generate_test_points")
    /\ call.method = "strategic"
    /\ reference_image.w = 800
    /\ \/ call.num_points = 5 /\ outcome.ret[5] = <<400, 300>>
                               /\ Len(outcome.ret) = 5
       \/ call.num_points = 9 /\ outcome.ret[8] = <<400, 450>>
                               /\ outcome.ret[7] = <<600, 150>>

\* the positions of the supplied points that lie inside the w by h image
ValidPositions(supplied, w, h) ==
    {i \in 1..Len(supplied) : /\ 0 <= supplied[i][1] /\ supplied[i][1] < w
                              /\ 0 <= supplied[i][2] /\ supplied[i][2] < h}

\* the position in the supplied list of the k-th valid point
KthValid(supplied, w, h, k) ==
    CHOOSE i \in ValidPositions(supplied, w, h) :
        Cardinality({j \in ValidPositions(supplied, w, h) : j <= i}) = k

\* C18: the custom strategy returns the supplied coordinates that satisfy
\* 0 <= x < width and 0 <= y < height, in the supplied order and with
\* repetitions kept; a point outside is left out on its own, and the number
\* of points returned is the number of valid supplied points.
C18_CustomFiltered ==
    (Returns("generate_test_points") /\ call.method = "custom")
    => LET supplied == call.custom_points
           w == reference_image.w
           h == reference_image.h
       IN  /\ Len(outcome.ret) = Cardinality(ValidPositions(supplied, w, h))
           /\ \A k \in 1..Len(outcome.ret) :
                 outcome.ret[k] = supplied[KthValid(supplied, w, h, k)]

\* a list with three points outside and one point inside given twice
C18_Witness ==
    /\ Returns("generate_test_points")
    /\ call.method = "custom"
    /\ Len(call.custom_points) = 5
    /\ reference_image.w = 52
    /\ outcome.ret = << <<1, 2>>, <<1, 2>> >>
    /\ test_points = outcome.ret

\* C19: for a batch of N >= 1 results of which S are significant, the report
\* gives the pass rate (N - S) / N * 100 (here in thousandths of a percent,
\* rounded down), a value of 0..100, and the grade of that rate: EXCELLENT
\* from 95, GOOD from 87.5, ACCEPTABLE from 75, FAIL below.  For N = 8 the
\* grade is EXCELLENT iff S = 0, GOOD iff S = 1, ACCEPTABLE iff S = 2 and
\* FAIL iff S >= 3.
C19_PassRateGraded ==
    (Returns("generate_report") /\ comparison_results # << >>)
    => LET rep == outcome.ret[1]
           N == Len(comparison_results)
           S == Cardinality({k \in 1..N : comparison_results[k].is_significant})
       IN  /\ rep.total_points = N
           /\ rep.significant_failures = S
           /\ rep.pass_rate * N <= (N - S) * 100000
           /\ (N - S) * 100000 < (rep.pass_rate + 1) * N
           /\ rep.pass_rate \in 0..100000
           /\ rep.grade = (IF rep.pass_rate >= 95000 THEN "EXCELLENT"
                           ELSE IF rep.pass_rate >= 87500 THEN "GOOD"
                           ELSE IF rep.pass_rate >= 75000 THEN "ACCEPTABLE"
                           ELSE "FAIL")
           /\ N = 8 => /\ rep.grade = "EXCELLENT" <=> S = 0
                       /\ rep.grade = "GOOD" <=> S = 1
                       /\ rep.grade = "ACCEPTABLE" <=> S = 2
                       /\ rep.grade = "FAIL" <=> S >= 3

\* the report of a batch of eight results
ReportOfEight(S, pass_rate, grade) ==
    /\ Returns("generate_report")
    /\ Len(comparison_results) = 8
    /\ outcome.ret[1].significant_failures = S
    /\ outcome.ret[1].pass_rate = pass_rate
    /\ outcome.ret[1].grade = grade

\* eight results with two significant ones: 75 percent, ACCEPTABLE
C19_Witness == ReportOfEight(2, 75000, "ACCEPTABLE")

\* the two runs as they were started
Started(t) ==
    [IdleThread EXCEPT !.pc = "load", !.method = threads[t].method,
                       !.num_points = threads[t].num_points]

\* the instances and files after run first and then run second, each taken
\* alone, for every pair of seconds the clock can show at their Step 4
SequentialOutcomes(first, second) ==
    { LET one == RunAlone(Started(first), ref_file, test_file, n[1], {})
          two == RunAlone(Started(second), ref_file, test_file, n[2],
                          one.reports)
      IN  [threads |-> [t \in Threads |-> IF t = first THEN one.thread
                                                       ELSE two.thread],
           reports |-> two.reports]
      : n \in {m \in (0..MaxClock) \X (0..MaxClock) : m[1] <= m[2]} }

\* C20 (as stated): when two runs of run_full_analysis on separate instances
\* have both ended, whatever their interleaving, the test_points and
\* comparison_results of each instance and the report and visualization
\* files saved are those of the two runs executed one after the other.
C20_AsIfSequential ==
    (\A t \in Threads : threads[t].pc = "done")
    => [threads |-> threads, reports |-> reports]
         \in SequentialOutcomes(1, 2) \cup SequentialOutcomes(2, 1)

\* a call of the grid strategy with a count >= 1 on a loaded reference image
GridCall ==
    /\ Returns("generate_test_points")
    /\ call.method = "grid"
    /\ call.num_points >= 1
    /\ reference_image # NoneImage

\* the largest c with c * c <= n
FloorSqrt(n) == CHOOSE c \in 0..n : c * c <= n /\ (c + 1) * (c + 1) > n

\* the smallest r with r * c >= n
CeilOf(n, c) == CHOOSE r \in 0..n : r * c >= n /\ (r - 1) * c < n

\* C21 (as stated): the grid strategy with a count >= 1 uses
\* floor(sqrt(count)) columns and ceil(count / columns) rows, the point of
\* row i and column j (0-based, row by row) is
\* (floor((j+1)*width/(cols+1)), floor((i+1)*height/(rows+1))), and no point
\* has x = 0, x = width - 1, y = 0 or y = height - 1, whatever the size of
\* the image.
C21_GridLatticeOffBorder ==
    GridCall
    => LET cols == FloorSqrt(call.num_points)
           rows == CeilOf(call.num_points, cols)
           w == reference_image.w
           h == reference_image.h
       IN  \A k \in 1..Len(outcome.ret) :
             LET i == (k - 1) \div cols
                 j == (k - 1) % cols
             IN  /\ outcome.ret[k] = << ((j + 1) * w) \div (cols + 1),
                                        ((i + 1) * h) \div (rows + 1) >>
                 /\ ~OnBorder(outcome.ret[k], w, h)

\* C24: the grid strategy with a count >= 1 on a loaded reference image
\* returns exactly count points: the lattice has rows * cols >= count cells
\* and the cells after the first count are not emitted, so that only the
\* last row can be partly filled.
C24_GridReturnsCount ==
    GridCall
    => LET cols == FloorSqrt(call.num_points)
           rows == CeilOf(call.num_points, cols)
       IN  /\ Len(outcome.ret) = call.num_points
           /\ test_points = outcome.ret
           /\ rows * cols >= call.num_points
           /\ (rows - 1) * cols < call.num_points

\* five points on a lattice of 2 columns by 3 rows: the last row holds one
C24_Witness ==
    /\ GridCall
    /\ call.num_points = 5
    /\ Len(outcome.ret) = 5
    /\ reference_image.w = 800
    /\ outcome.ret[4][2] = outcome.ret[3][2]
    /\ outcome.ret[5][2] > outcome.ret[4][2]

\* the seven fields of a result
ResultFields ==
    {"point_id", "coordinates", "reference_rgb", "test_rgb", "rgb_difference",
     "total_difference", "is_significant"}

\* batch holds one result with all seven fields for each point of points
CompleteBatch(batch, points) ==
    /\ Len(batch) = Len(points)
    /\ \A k \in 1..Len(batch) :
          /\ DOMAIN batch[k] = ResultFields
          /\ batch[k].point_id = k
          /\ batch[k].coordinates = points[k]
          /\ Len(batch[k].reference_rgb) = 3
          /\ Len(batch[k].test_rgb) = 3
          /\ Len(batch[k].rgb_difference) = 3
          /\ batch[k].total_difference >= 0
          /\ batch[k].is_significant \in BOOLEAN

\* C22: a call of compare_pixels, also one that ends with an error at a
\* point after the first, leaves comparison_results either as it was or as
\* a new batch with one result of seven fields for each point of
\* test_points; what the call returns is empty or such a batch.
C22_NoPartialBatch ==
    [][call'.op = "compare_pixels"
       => /\ \/ comparison_results' = comparison_results
             \/ CompleteBatch(comparison_results', test_points')
          /\ \/ outcome'.ret = << >>
             \/ CompleteBatch(outcome'.ret, test_points')]_vars

\* compare_pixels ended with an IndexError at the second point, the first
\* point being readable in both images, and an earlier batch is stored
C22_Witness ==
    /\ call.op = "compare_pixels"
    /\ outcome.exc = "IndexError"
    /\ Len(test_points) = 2
    /\ IndexOk(reference_image, test_points[1][1], test_points[1][2])
    /\ IndexOk(test_image, test_points[1][1], test_points[1][2])
    /\ ~IndexOk(test_image, test_points[2][1], test_points[2][2])
    /\ comparison_results # << >>
    /\ comparison_results[1].coordinates # test_points[1]

\* the steps of a call, as a set
StepSet == {steps[k] : k \in 1..Len(steps)}

\* C23 (as stated): whenever the command line tool is given a method other
\* than custom and runs the analysis, the requested point count is 8,
\* whatever --points was; the grid strategy then generates 8 points.
C23_CliForcesEight ==
    (/\ call.op = "cli_main"
     /\ call.method # "custom"
     /\ "generate_test_points" \in StepSet)
    => /\ CliPoints(call.method, call.num_points, call.custom_points) = 8
       /\ call.method = "grid" /\ outcome.ret = <<0>> => Len(test_points) = 8

\* C25 (as stated): in every state of an instance, a non-empty
\* comparison_results has the length of test_points and its i-th result
\* has the coordinates test_points[i]; visualize_comparison therefore never
\* ends with an IndexError.
C25_ResultsMatchPoints ==
    /\ comparison_results # << >>
       => /\ Len(comparison_results) = Len(test_points)
          /\ \A i \in 1..Len(comparison_results) :
                comparison_results[i].coordinates = test_points[i]
    /\ call.op = "visualize_comparison" => outcome.exc # "IndexError"

\* the steps of run_full_analysis in the state after a call of it, directly
\* or from the command line tool (whose first step sets the threshold)
RunSteps ==
    IF call.op = "cli_main" /\ steps # << >> THEN Tail(steps) ELSE steps

StepOrder ==
    <<"load_images", "generate_test_points", "compare_pixels",
      "visualize_comparison", "generate_report">>

Loaded == reference_image # NoneImage /\ test_image # NoneImage

\* C26: the steps of a run of run_full_analysis are the first steps of
\* load images, generate points, compare pixels, write outputs, in that
\* order; a run in which loading fails takes no step after loading, a run
\* whose points are empty takes no step after generating, and an output
\* step is taken only when, in that run, the images were loaded, the
\* points were generated and every point was compared.
C26_StepsInOrder ==
    (call.op \in {"run_full_analysis", "cli_main"} /\ RunSteps # << >>)
    => LET n == Len(RunSteps)
           taken == {RunSteps[k] : k \in 1..n}
       IN  /\ n <= 5
           /\ \A k \in 1..n : RunSteps[k] = StepOrder[k]
           /\ ~Loaded => n = 1
           /\ test_points = << >> => n <= 2
           /\ outcome.exc # "none" => n <= 3
           /\ "visualize_comparison" \in taken
              => /\ Loaded
                 /\ test_points # << >>
                 /\ CompleteBatch(comparison_results, test_points)
                 /\ threshold_at_comparison = significance_threshold

\* a run that ended after generating an empty point list
C26_Witness ==
    /\ call.op = "run_full_analysis"
    /\ steps = <<"load_images", "generate_test_points">>
    /\ Loaded
    /\ outcome.exc = "none"
    /\ test_points = << >>

\* the call computed a pass rate: the outputs and the summary of
\* run_full_analysis, the chart, the summary of the interactive demo
PassRateComputed ==
    \/ /\ call.op \in {"run_full_analysis", "cli_main"}
       /\ "visualize_comparison" \in StepSet
    \/ call.op = "visualize_comparison" /\ Len(outcome.ret) = 1
    \/ call.op = "run_interactive_demo" /\ "pass_rate" \in StepSet

\* C27 (as stated): on every entry point the pass rate is computed over a
\* non-empty result list only, so that no call ends with the
\* ZeroDivisionError of a division by the number of results, also when
\* loading the images failed.
C27_NoDivisionByZero ==
    PassRateComputed
    => /\ comparison_results # << >>
       /\ outcome.exc # "ZeroDivisionError"

\* C28 (as stated): whenever compare_pixels is reached through
\* run_full_analysis or through the custom branch of the interactive demo,
\* every point of test_points satisfies 0 <= x < width and 0 <= y < height
\* for both images, and the comparison does not end with an IndexError.
C28_ComparedPointsInBounds ==
    (/\ call.op \in {"run_full_analysis", "cli_main", "run_interactive_demo"}
     /\ "compare_pixels" \in StepSet
     /\ Loaded)
    => /\ \A k \in 1..Len(test_points) :
             /\ 0 <= test_points[k][1]
             /\ test_points[k][1] < reference_image.w
             /\ test_points[k][1] < test_image.w
             /\ 0 <= test_points[k][2]
             /\ test_points[k][2] < reference_image.h
             /\ test_points[k][2] < test_image.h
       /\ outcome.exc # "IndexError"

\* C29: for every pass rate of 0..100 the binary verdict of the summaries
\* is PASS exactly when _calculate_quality_grade gives a grade other than
\* FAIL, and FAIL exactly when it gives FAIL.
C29_VerdictAgreesWithGrade ==
    call.op = "summary_verdict"
    => /\ call.pass_rate \in 0..100000
       /\ outcome.ret[1] \in {"PASS", "FAIL"}
       /\ outcome.ret[1] = "PASS"
            <=> calculate_quality_grade(call.pass_rate) # "FAIL"
       /\ outcome.ret[1] = "FAIL"
            <=> calculate_quality_grade(call.pass_rate) = "FAIL"

\* the verdict at exactly 75 percent, the lowest rate that is not a FAIL
C29_Witness ==
    /\ call.op = "summary_verdict"
    /\ call.pass_rate = 75000
    /\ outcome.ret = <<"PASS">>
    /\ calculate_quality_grade(call.pass_rate) = "ACCEPTABLE"

\* the chart was drawn
ChartDrawn ==
    /\ call.op = "visualize_comparison"
    /\ outcome.exc = "none"
    /\ Len(outcome.ret) = 1

\* C30 (as stated): in every chart the bar of point i is red exactly when
\* the marker of point i on the test image is red, exactly when its table
\* status is FAIL, exactly when the stored is_significant of result i is
\* true, whatever calls of compare_pixels and set_significance_threshold
\* came before.
C30_ChartConsistent ==
    ChartDrawn
    => LET chart == outcome.ret[1]
       IN  \A i \in 1..Len(chart.bars) :
             /\ i <= Len(chart.test_markers)
                => (chart.bars[i] = "red"
                      <=> chart.test_markers[i].colour = "red")
             /\ chart.bars[i] = "red" <=> chart.table[i].status = "FAIL"
             /\ chart.bars[i] = "red" <=> comparison_results[i].is_significant

====
